---- MODULE Spec2Model ----
(***************************************************************************)
(* Book API (Flask + SQLAlchemy): the book table, the CRUD handlers and    *)
(* the query / transform / aggregate handlers of routes.py.                *)
(*                                                                         *)
(* Python values are modelled as follows.                                  *)
(*   None            <<>>                                                  *)
(*   a non-None v    <<v>>                                                 *)
(*   a str           the sequence of its characters ("" is <<>>)           *)
(*   a JSON body     [kind, obj, items]: null, an object (a function from  *)
(*                   its keys to values) or a list of strings              *)
(* An unhandled Python exception is the HTTP status 500.                   *)
(***************************************************************************)
EXTENDS Integers, Sequences, FiniteSets, TLC

VARIABLES books, resp

vars == <<books, resp>>

(* Bounds of the model: the largest id a row gets under Spec (the CRUD
   requests) and under SpecQuery (the query requests). *)
MaxCrudId == 2
MaxQueryId == 3

None == <<>>
Some(v) == <<v>>

(***************************************************************************)
(* str.upper() and str.lower(), character by character.                    *)
(***************************************************************************)
UpperChar(c) ==
    CASE c = "a" -> "A"
      [] c = "b" -> "B"
      [] c = "l" -> "L"
      [] c = "x" -> "X"
      [] OTHER -> c

LowerChar(c) ==
    CASE c = "A" -> "a"
      [] c = "B" -> "b"
      [] c = "L" -> "l"
      [] c = "X" -> "x"
      [] OTHER -> c

upper(s) == [i \in 1..Len(s) |-> UpperChar(s[i])]

lower(s) == [i \in 1..Len(s) |-> LowerChar(s[i])]

(***************************************************************************)
(* The inputs the requests are drawn from.                                 *)
(***************************************************************************)
Titles == {<<>>, <<"a">>}
Authors == {<<"X">>}
Genres == {<<"g">>}
Years == {1800}

Ids == 1..MaxCrudId

(* A request field: absent (<<>>), or present with a value that may be null. *)
FieldIn(vals) == {<<>>} \cup {<<None>>} \cup {<<Some(v)>> : v \in vals}

PresentKeys(t, a, g, y) ==
    {k \in {"title", "author", "genre", "year"} :
        \/ k = "title" /\ t # <<>>
        \/ k = "author" /\ a # <<>>
        \/ k = "genre" /\ g # <<>>
        \/ k = "year" /\ y # <<>>}

MakeObj(t, a, g, y) ==
    [k \in PresentKeys(t, a, g, y) |->
        CASE k = "title" -> t[1]
          [] k = "author" -> a[1]
          [] k = "genre" -> g[1]
          [] k = "year" -> y[1]]

Objects ==
    {MakeObj(t, a, g, y) : t \in FieldIn(Titles), a \in FieldIn(Authors),
                           g \in FieldIn(Genres), y \in FieldIn(Years)}

NullBody == [kind |-> "null", obj |-> <<>>, items |-> <<>>]
ObjectBody(o) == [kind |-> "object", obj |-> o, items |-> <<>>]
ListBody(l) == [kind |-> "list", obj |-> <<>>, items |-> l]

Bodies ==
    {NullBody} \cup {ObjectBody(o) : o \in Objects}
               \cup {ListBody(<<>>), ListBody(<<"title", "author">>)}

(***************************************************************************)
(* models.py: the book table.  Book.query.all() scans it in id order.      *)
(***************************************************************************)
Book(id, title, author, genre, year) ==
    [id |-> id, title |-> title, author |-> author, genre |-> genre, year |-> year]

(* INTEGER PRIMARY KEY: a new row gets the largest id in the table plus one. *)
NewId(bs) == IF bs = <<>> THEN 1 ELSE bs[Len(bs)].id + 1

(* title and author are nullable=False: the commit of a row with a NULL there
   raises IntegrityError. *)
NotNullOk(b) == b.title # None /\ b.author # None

(* Book.query.get(id): the index of the row, 0 when there is none. *)
IndexOf(bs, id) ==
    IF \E i \in 1..Len(bs) : bs[i].id = id
    THEN CHOOSE i \in 1..Len(bs) : bs[i].id = id
    ELSE 0

Result(status, out, bs) == [status |-> status, out |-> out, books |-> bs]

(***************************************************************************)
(* validate_data(required_fields)(data): `field in data` on a dict is key  *)
(* membership, on a list element membership.                               *)
(***************************************************************************)
In(field, data) ==
    CASE data.kind = "object" -> field \in DOMAIN data.obj
      [] data.kind = "list" -> \E i \in 1..Len(data.items) : data.items[i] = field
      [] OTHER -> FALSE

(* A variant with any() in place of all(). *)
validate_data_any(required_fields, data) ==
    \E i \in 1..Len(required_fields) : In(required_fields[i], data)

validate_data(required_fields, data) ==
    \A i \in 1..Len(required_fields) : In(required_fields[i], data)

validate_book_data(data) == validate_data(<<"title", "author">>, data)

(* dict.get(key, default) *)
Get(obj, key, default) == IF key \in DOMAIN obj THEN obj[key] ELSE default

(***************************************************************************)
(* POST /books                                                             *)
(***************************************************************************)
add_book(bs, data) ==
    IF data.kind = "null" THEN Result(400, "No JSON data provided", bs)
    ELSE IF ~validate_book_data(data)
    THEN Result(400, "Title and author are required", bs)
    ELSE IF data.kind # "object"
    THEN Result(500, "TypeError", bs)
    ELSE IF "title" \notin DOMAIN data.obj \/ "author" \notin DOMAIN data.obj
    THEN Result(500, "KeyError", bs)
    ELSE LET new_book == Book(NewId(bs), data.obj["title"], data.obj["author"],
                              Get(data.obj, "genre", None), Get(data.obj, "year", None))
         IN IF ~NotNullOk(new_book)
            THEN Result(500, "IntegrityError", bs)
            ELSE Result(201, "Book added successfully", Append(bs, new_book))

(***************************************************************************)
(* DELETE /books/<id>                                                      *)
(***************************************************************************)
delete_book(bs, id) ==
    LET i == IndexOf(bs, id)
    IN IF i = 0
       THEN Result(404, "Not Found", bs)
       ELSE Result(200, "Book deleted successfully",
                   SubSeq(bs, 1, i - 1) \o SubSeq(bs, i + 1, Len(bs)))

(***************************************************************************)
(* PUT /books/<id>                                                         *)
(***************************************************************************)
(* A variant that reads `data.get(key) or book.key`: a null is taken as absent. *)
GetOr(obj, key, default) ==
    IF key \in DOMAIN obj /\ obj[key] # None THEN obj[key] ELSE default

update_book_or(bs, id, data) ==
    LET i == IndexOf(bs, id)
    IN IF i = 0
       THEN Result(404, "No book found", bs)
       ELSE IF data.kind # "object"
       THEN Result(500, "AttributeError", bs)
       ELSE LET book == bs[i]
                updated == Book(book.id,
                                GetOr(data.obj, "title", book.title),
                                GetOr(data.obj, "author", book.author),
                                GetOr(data.obj, "genre", book.genre),
                                GetOr(data.obj, "year", book.year))
            IN IF ~NotNullOk(updated)
               THEN Result(500, "IntegrityError", bs)
               ELSE Result(200, "Book updated successfully",
                           [bs EXCEPT ![i] = updated])

update_book(bs, id, data) ==
    LET i == IndexOf(bs, id)
    IN IF i = 0
       THEN Result(404, "No book found", bs)
       ELSE IF data.kind # "object"
       THEN Result(500, "AttributeError", bs)
       ELSE LET book == bs[i]
                updated == Book(book.id,
                                Get(data.obj, "title", book.title),
                                Get(data.obj, "author", book.author),
                                Get(data.obj, "genre", book.genre),
                                Get(data.obj, "year", book.year))
            IN IF ~NotNullOk(updated)
               THEN Result(500, "IntegrityError", bs)
               ELSE Result(200, "Book updated successfully",
                           [bs EXCEPT ![i] = updated])

(***************************************************************************)
(* PATCH /books/update-fields/<id>                                         *)
(***************************************************************************)
patch_book(bs, id, data) ==
    LET i == IndexOf(bs, id)
    IN IF i = 0
       THEN Result(404, "No book found", bs)
       ELSE IF data.kind = "null"
       THEN Result(500, "TypeError", bs)
       ELSE IF data.kind = "list"
       THEN IF \E k \in {"title", "author", "genre", "year"} : In(k, data)
            THEN Result(500, "TypeError", bs)
            ELSE Result(200, "Book updated successfully", bs)
       ELSE LET book == bs[i]
                b1 == IF In("title", data)
                      THEN [book EXCEPT !.title = data.obj["title"]] ELSE book
                b2 == IF In("author", data)
                      THEN [b1 EXCEPT !.author = data.obj["author"]] ELSE b1
                b3 == IF In("genre", data)
                      THEN [b2 EXCEPT !.genre = data.obj["genre"]] ELSE b2
                b4 == IF In("year", data)
                      THEN [b3 EXCEPT !.year = data.obj["year"]] ELSE b3
            IN IF ~NotNullOk(b4)
               THEN Result(500, "IntegrityError", bs)
               ELSE Result(200, "Book updated successfully", [bs EXCEPT ![i] = b4])

(***************************************************************************)
(* The outcome of a Python expression: a value, or an exception raised.    *)
(***************************************************************************)
Ok(v) == [ok |-> TRUE, val |-> v]
Raise == [ok |-> FALSE, val |-> <<>>]

(* The list comprehension [f(x) for x in xs]. *)
Map(f(_), xs) == [i \in 1..Len(xs) |-> f(xs[i])]

Reverse(xs) == [i \in 1..Len(xs) |-> xs[Len(xs) + 1 - i]]

(***************************************************************************)
(* sorted(xs, key=lambda x: x.year, reverse=...).  The list sort is a      *)
(* binary insertion sort on lists this short: each element is put behind   *)
(* the elements whose key is not larger.  With reverse the list is         *)
(* reversed, sorted, and reversed again.  Comparing None raises TypeError. *)
(***************************************************************************)
InsertByYear(sortedXs, x) ==
    LET p == Cardinality({i \in 1..Len(sortedXs) : sortedXs[i].year[1] <= x.year[1]})
    IN SubSeq(sortedXs, 1, p) \o <<x>> \o SubSeq(sortedXs, p + 1, Len(sortedXs))

RECURSIVE SortPrefix(_, _)
SortPrefix(xs, n) ==
    IF n = 0 THEN <<>> ELSE InsertByYear(SortPrefix(xs, n - 1), xs[n])

sorted_by_year(xs, reverse) ==
    IF Len(xs) >= 2 /\ \E i \in 1..Len(xs) : xs[i].year = None
    THEN Raise
    ELSE IF Len(xs) < 2
    THEN Ok(xs)
    ELSE IF reverse
    THEN Ok(Reverse(SortPrefix(Reverse(xs), Len(xs))))
    ELSE Ok(SortPrefix(xs, Len(xs)))

sort_books_by_year(bs) == sorted_by_year(bs, FALSE)

(* Book.query.filter_by(author=author).all() *)
filter_books_by_author(bs, author) ==
    SelectSeq(bs, LAMBDA b : b.author = Some(author))

(***************************************************************************)
(* GET /books/year-range?start=&end=                                       *)
(* SQL BETWEEN is inclusive and is not true of a NULL operand.             *)
(***************************************************************************)
(* A variant with an exclusive upper bound. *)
between_exclusive(year, start_year, end_year) ==
    /\ year # None
    /\ start_year # None
    /\ end_year # None
    /\ start_year[1] <= year[1]
    /\ year[1] < end_year[1]

between(year, start_year, end_year) ==
    /\ year # None
    /\ start_year # None
    /\ end_year # None
    /\ start_year[1] <= year[1]
    /\ year[1] <= end_year[1]

get_books_by_year_range(bs, start_year, end_year) ==
    LET filtered == SelectSeq(bs, LAMBDA b : between(b.year, start_year, end_year))
        sortedBooks == sorted_by_year(filtered, FALSE)
    IN IF ~sortedBooks.ok
       THEN Result(500, "TypeError", bs)
       ELSE Result(200,
                   Map(LAMBDA b : [id |-> b.id, title |-> b.title,
                                   author |-> b.author, genre |-> b.genre],
                       sortedBooks.val),
                   bs)

(***************************************************************************)
(* GET /books/earliest                                                     *)
(* reduce(lambda a, b: a if a.year < b.year else b, books)                 *)
(***************************************************************************)
(* A variant with <= in place of <: the first of two equal years is kept. *)
earliest_lambda_le(a, b) ==
    IF a.year = None \/ b.year = None
    THEN Raise
    ELSE IF a.year[1] <= b.year[1] THEN Ok(a) ELSE Ok(b)

earliest_lambda(a, b) ==
    IF a.year = None \/ b.year = None
    THEN Raise
    ELSE IF a.year[1] < b.year[1] THEN Ok(a) ELSE Ok(b)

RECURSIVE reduce_earliest(_, _)
reduce_earliest(bs, n) ==
    IF n = 1
    THEN Ok(bs[1])
    ELSE LET acc == reduce_earliest(bs, n - 1)
         IN IF ~acc.ok THEN Raise ELSE earliest_lambda(acc.val, bs[n])

get_earliest_book(bs) ==
    IF bs = <<>>
    THEN Result(404, "No books found", bs)
    ELSE LET earliest_book == reduce_earliest(bs, Len(bs))
         IN IF ~earliest_book.ok
            THEN Result(500, "TypeError", bs)
            ELSE Result(200, earliest_book.val, bs)

(***************************************************************************)
(* GET /books/summary                                                      *)
(***************************************************************************)
MinYear == 1800

get_books_summary(bs) ==
    IF \E i \in 1..Len(bs) : bs[i].year = None
    THEN Result(500, "TypeError", bs)
    ELSE LET recent_books == SelectSeq(bs, LAMBDA book : book.year[1] > MinYear)
             uppercase_titles == Map(LAMBDA book : upper(book.title[1]), recent_books)
             book_count == Len(recent_books)
         IN Result(200, [titles |-> uppercase_titles, book_count |-> book_count], bs)

(***************************************************************************)
(* GET /books/summary/<author>                                             *)
(* filtered_ids is the handler's local filtered_books, kept by id.         *)
(***************************************************************************)
(* A variant that compares the token as it is, without lower(). *)
is_all_exact(author) == author = <<"a", "l", "l">>

is_all(author) == lower(author) = <<"a", "l", "l">>

get_books_summary_author(bs, author) ==
    LET filtered_books == IF is_all(author)
                          THEN bs
                          ELSE SelectSeq(bs, LAMBDA book : book.author = Some(author))
        transformed_titles == Map(LAMBDA book : upper(book.title[1]), filtered_books)
        total_books == Len(filtered_books)
    IN Result(200,
              [titles |-> transformed_titles, total_books |-> total_books,
               filtered_ids |-> Map(LAMBDA book : book.id, filtered_books)],
              bs)

(***************************************************************************)
(* GET /books/sorted                                                       *)
(***************************************************************************)
get_books_sorted(bs) ==
    LET sorted_books == sorted_by_year(bs, TRUE)
    IN IF ~sorted_books.ok
       THEN Result(500, "TypeError", bs)
       ELSE Result(200,
                   Map(LAMBDA book : [title |-> book.title, year |-> book.year],
                       sorted_books.val),
                   bs)

(***************************************************************************)
(* GET /books/author/<author>/sorted                                       *)
(***************************************************************************)
get_sorted_books_by_author(bs, author) ==
    LET sorted_books == sort_books_by_year(filter_books_by_author(bs, author))
    IN IF ~sorted_books.ok
       THEN Result(500, "TypeError", bs)
       ELSE Result(200,
                   Map(LAMBDA book : [id |-> book.id, title |-> book.title,
                                      year |-> book.year],
                       sorted_books.val),
                   bs)

(***************************************************************************)
(* The requests.  A handler runs from start to end on one request; its     *)
(* response is in flight until it is delivered.                            *)
(***************************************************************************)
Idle == [op |-> "idle"]

Init ==
    /\ books = <<>>
    /\ resp = Idle

AddBook(data, maxId) ==
    /\ resp.op = "idle"
    /\ LET r == add_book(books, data)
       IN /\ r.books # books => NewId(books) <= maxId
          /\ books' = r.books
          /\ resp' = [op |-> "add_book", data |-> data, status |-> r.status,
                      out |-> r.out, before |-> books]

DeleteBook(id) ==
    /\ resp.op = "idle"
    /\ LET r == delete_book(books, id)
       IN /\ books' = r.books
          /\ resp' = [op |-> "delete_book", id |-> id, status |-> r.status,
                      out |-> r.out, before |-> books]

UpdateBook(id, data) ==
    /\ resp.op = "idle"
    /\ LET r == update_book(books, id, data)
       IN /\ books' = r.books
          /\ resp' = [op |-> "update_book", id |-> id, data |-> data,
                      status |-> r.status, out |-> r.out, before |-> books]

PatchBook(id, data) ==
    /\ resp.op = "idle"
    /\ LET r == patch_book(books, id, data)
       IN /\ books' = r.books
          /\ resp' = [op |-> "patch_book", id |-> id, data |-> data,
                      status |-> r.status, out |-> r.out, before |-> books]

Deliver ==
    /\ resp.op # "idle"
    /\ resp' = Idle
    /\ UNCHANGED books

Next ==
    \/ \E data \in Bodies : AddBook(data, MaxCrudId)
    \/ \E id \in Ids : DeleteBook(id)
    \/ \E id \in Ids, data \in Bodies : UpdateBook(id, data)
    \/ \E id \in Ids, data \in Bodies : PatchBook(id, data)
    \/ Deliver

Spec == Init /\ [][Next]_vars

(***************************************************************************)
(* The query requests.                                                     *)
(***************************************************************************)
QueryTitles == {<<"a">>, <<"b">>}
QueryAuthors == {<<"X">>, <<"x">>}
QueryYears == {1800, 1850}

QueryIds == 1..MaxQueryId

QueryBodies ==
    {ObjectBody(MakeObj(<<Some(t)>>, <<Some(a)>>, <<>>, y)) :
        t \in QueryTitles, a \in QueryAuthors,
        y \in {<<>>} \cup {<<Some(v)>> : v \in QueryYears}}

YearArgs == {None} \cup {Some(v) : v \in QueryYears}

AuthorTokens ==
    {<<"a", "l", "l">>, <<"A", "l", "l">>, <<"A", "L", "L">>, <<"X">>, <<"x">>}

GetBooksByYearRange(start_year, end_year) ==
    /\ resp.op = "idle"
    /\ LET r == get_books_by_year_range(books, start_year, end_year)
       IN /\ books' = r.books
          /\ resp' = [op |-> "get_books_by_year_range", start |-> start_year,
                      end |-> end_year, status |-> r.status, out |-> r.out,
                      before |-> books]

GetEarliestBook ==
    /\ resp.op = "idle"
    /\ LET r == get_earliest_book(books)
       IN /\ books' = r.books
          /\ resp' = [op |-> "get_earliest_book", status |-> r.status,
                      out |-> r.out, before |-> books]

GetBooksSummary ==
    /\ resp.op = "idle"
    /\ LET r == get_books_summary(books)
       IN /\ books' = r.books
          /\ resp' = [op |-> "get_books_summary", status |-> r.status,
                      out |-> r.out, before |-> books]

GetBooksSummaryAuthor(author) ==
    /\ resp.op = "idle"
    /\ LET r == get_books_summary_author(books, author)
       IN /\ books' = r.books
          /\ resp' = [op |-> "get_books_summary_author", author |-> author,
                      status |-> r.status, out |-> r.out, before |-> books]

GetBooksSorted ==
    /\ resp.op = "idle"
    /\ LET r == get_books_sorted(books)
       IN /\ books' = r.books
          /\ resp' = [op |-> "get_books_sorted", status |-> r.status,
                      out |-> r.out, before |-> books]

GetSortedBooksByAuthor(author) ==
    /\ resp.op = "idle"
    /\ LET r == get_sorted_books_by_author(books, author)
       IN /\ books' = r.books
          /\ resp' = [op |-> "get_sorted_books_by_author", author |-> author,
                      status |-> r.status, out |-> r.out, before |-> books]

NextQuery ==
    \/ \E data \in QueryBodies : AddBook(data, MaxQueryId)
    \/ \E id \in QueryIds : DeleteBook(id)
    \/ \E s \in YearArgs, e \in YearArgs : GetBooksByYearRange(s, e)
    \/ GetEarliestBook
    \/ GetBooksSummary
    \/ \E author \in AuthorTokens : GetBooksSummaryAuthor(author)
    \/ GetBooksSorted
    \/ \E author \in QueryAuthors : GetSortedBooksByAuthor(author)
    \/ Deliver

SpecQuery == Init /\ [][NextQuery]_vars

(***************************************************************************)
(* Properties.  A response in flight carries the request, the status, the  *)
(* body and the table as it was before the request (before).               *)
(***************************************************************************)
AllHaveYear(bs) == \A i \in 1..Len(bs) : bs[i].year # None

IsMinYear(bs, i) == \A j \in 1..Len(bs) : bs[i].year[1] <= bs[j].year[1]

EarliestCase ==
    /\ resp.op = "get_earliest_book"
    /\ resp.before # <<>>
    /\ AllHaveYear(resp.before)

(* C1 (as stated): on a non-empty collection whose records all have a year,
   the earliest-book request returns a record of minimum year, and of several
   records of that year the one that comes FIRST in input order. *)
C1_FirstOfMinimumYear ==
    EarliestCase =>
        /\ resp.status = 200
        /\ \E i \in 1..Len(resp.before) :
              /\ resp.out = resp.before[i]
              /\ IsMinYear(resp.before, i)
              /\ \A j \in 1..(i - 1) : ~IsMinYear(resp.before, j)

(* C1 (amended): on a non-empty collection whose records all have a year,
   the earliest-book request returns a record of minimum year, and of several
   records of that year the one that comes LAST in input order. *)
C1_LastOfMinimumYear ==
    EarliestCase =>
        /\ resp.status = 200
        /\ \E i \in 1..Len(resp.before) :
              /\ resp.out = resp.before[i]
              /\ IsMinYear(resp.before, i)
              /\ \A j \in (i + 1)..Len(resp.before) : ~IsMinYear(resp.before, j)

(* Two records share the minimum year and the request has answered. *)
C1_Witness ==
    /\ EarliestCase
    /\ resp.status = 200
    /\ \E i, j \in 1..Len(resp.before) :
          i < j /\ IsMinYear(resp.before, i) /\ IsMinYear(resp.before, j)

(* C2: the earliest-book request ends in 404 'No books found' when the
   collection is empty and when no record has a year, and a record without a
   year never makes it fail in another way. *)
C2_NoYearIsNoBooksFound ==
    resp.op = "get_earliest_book" =>
        /\ (\A i \in 1..Len(resp.before) : resp.before[i].year = None) =>
              (resp.status = 404 /\ resp.out = "No books found")
        /\ resp.status \in {200, 404}

RequiredFieldLists ==
    {<<>>, <<"title">>, <<"title", "author">>, <<"genre", "year">>}

(* C3: the validator is true iff every required field is a key of the
   payload, and the book validator (title, author) is moreover false when
   title or author is present but the empty string. *)
C3_ValidatorRejectsEmpty ==
    (resp.op = "add_book" /\ resp.data.kind = "object") =>
        /\ \A rf \in RequiredFieldLists :
              validate_data(rf, resp.data)
                  <=> (\A i \in 1..Len(rf) : rf[i] \in DOMAIN resp.data.obj)
        /\ validate_book_data(resp.data)
              <=> /\ {"title", "author"} \subseteq DOMAIN resp.data.obj
                  /\ resp.data.obj["title"] # Some(<<>>)
                  /\ resp.data.obj["author"] # Some(<<>>)

(* C4: adding a book with no payload, or a payload without title or author,
   answers 400 and leaves the table as it was; 201 is answered only when the
   record of the payload was appended, and the table changes only then. *)
C4_InvalidAddRejected ==
    resp.op = "add_book" =>
        LET d == resp.data
            n == Len(resp.before)
            missing ==
                \/ d.kind = "null"
                \/ d.kind = "object" /\ ~({"title", "author"} \subseteq DOMAIN d.obj)
        IN /\ missing => (resp.status = 400 /\ books = resp.before)
           /\ resp.status = 201 =>
                 /\ d.kind = "object"
                 /\ Len(books) = n + 1
                 /\ SubSeq(books, 1, n) = resp.before
                 /\ books[n + 1].title = d.obj["title"]
                 /\ books[n + 1].author = d.obj["author"]
           /\ resp.status # 201 => books = resp.before

(* A payload with a title and no author was refused on a non-empty table. *)
C4_Witness ==
    /\ resp.op = "add_book"
    /\ resp.status = 400
    /\ resp.data.kind = "object"
    /\ "title" \in DOMAIN resp.data.obj
    /\ "author" \notin DOMAIN resp.data.obj
    /\ resp.before # <<>>
    /\ books = resp.before

(* C5: every stored record has a title and an author that are present and
   not the empty string. *)
C5_StoredTitleAuthorNonEmpty ==
    \A i \in 1..Len(books) :
        /\ books[i].title \notin {None, Some(<<>>)}
        /\ books[i].author \notin {None, Some(<<>>)}

(* C6: with both bounds given, the year-range request returns exactly the
   records with start <= year <= end, none without a year, nothing when
   start > end, in ascending order of year. *)
C6_YearRangeInclusiveAscending ==
    (resp.op = "get_books_by_year_range" /\ resp.start # None /\ resp.end # None) =>
        LET bs == resp.before
            inRange == {i \in 1..Len(bs) :
                           /\ bs[i].year # None
                           /\ resp.start[1] <= bs[i].year[1]
                           /\ bs[i].year[1] <= resp.end[1]}
            YearOfId(id) == bs[CHOOSE i \in 1..Len(bs) : bs[i].id = id].year[1]
        IN /\ resp.status = 200
           /\ Len(resp.out) = Cardinality(inRange)
           /\ \A i \in inRange : \E k \in 1..Len(resp.out) :
                 resp.out[k] = [id |-> bs[i].id, title |-> bs[i].title,
                                author |-> bs[i].author, genre |-> bs[i].genre]
           /\ \A k \in 1..Len(resp.out) : \E i \in inRange : resp.out[k].id = bs[i].id
           /\ \A k \in 1..(Len(resp.out) - 1) :
                 YearOfId(resp.out[k].id) <= YearOfId(resp.out[k + 1].id)
           /\ resp.start[1] > resp.end[1] => resp.out = <<>>
           /\ books = bs

(* Two records are returned in another order than they are stored, a record
   on a bound is among them, and a record without a year is left out. *)
C6_Witness ==
    /\ resp.op = "get_books_by_year_range"
    /\ resp.start # None
    /\ resp.end # None
    /\ Len(resp.out) = 2
    /\ resp.out[1].id > resp.out[2].id
    /\ \E i \in 1..Len(resp.before) : resp.before[i].year = resp.end
    /\ \E i \in 1..Len(resp.before) : resp.before[i].year = None

(* C7: for every collection, also one with records without a year, the
   summary returns the upper-cased titles of exactly the records with
   year > 1800, in input order, and their count. *)
C7_SummaryOfRecentBooks ==
    resp.op = "get_books_summary" =>
        LET kept == SelectSeq(resp.before,
                              LAMBDA b : b.year # None /\ b.year[1] > 1800)
        IN /\ resp.status = 200
           /\ resp.out.titles = Map(LAMBDA b : upper(b.title[1]), kept)
           /\ resp.out.book_count = Len(resp.out.titles)

(* `all` in any mix of upper and lower case. *)
IsAllToken(t) ==
    /\ Len(t) = 3
    /\ t[1] \in {"a", "A"}
    /\ t[2] \in {"l", "L"}
    /\ t[3] \in {"l", "L"}

(* C8: the per-author summary selects every record when the token is `all`
   in any case, and otherwise exactly the records whose author equals the
   token case-sensitively, in input order; the total is their number. *)
C8_SummaryByAuthor ==
    resp.op = "get_books_summary_author" =>
        LET sel == IF IsAllToken(resp.author)
                   THEN resp.before
                   ELSE SelectSeq(resp.before, LAMBDA b : b.author = Some(resp.author))
        IN /\ resp.status = 200
           /\ resp.out.filtered_ids = Map(LAMBDA b : b.id, sel)
           /\ resp.out.titles = Map(LAMBDA b : upper(b.title[1]), sel)
           /\ resp.out.total_books = Len(sel)
           /\ books = resp.before

(* The token ALL selected the records of two different authors. *)
C8_Witness ==
    /\ resp.op = "get_books_summary_author"
    /\ resp.author = <<"A", "L", "L">>
    /\ Len(resp.before) >= 2
    /\ resp.out.total_books = Len(resp.before)
    /\ \E i, j \in 1..Len(resp.before) : resp.before[i].author # resp.before[j].author

(* The records of xs in order of year (descending when desc), records of
   equal year in their order in xs: out is such an arrangement, each record
   shown through proj. *)
StablySorted(xs, out, desc, proj(_)) ==
    /\ Len(out) = Len(xs)
    /\ \E p \in Permutations(1..Len(xs)) :
          /\ \A k \in 1..Len(xs) : out[k] = proj(xs[p[k]])
          /\ \A k, l \in 1..Len(xs) :
                k < l =>
                    \/ /\ ~desc
                       /\ xs[p[k]].year[1] < xs[p[l]].year[1]
                    \/ /\ desc
                       /\ xs[p[k]].year[1] > xs[p[l]].year[1]
                    \/ /\ xs[p[k]].year = xs[p[l]].year
                       /\ p[k] < p[l]

SortedDescendingStable ==
    /\ resp.status = 200
    /\ StablySorted(resp.before, resp.out, TRUE,
                    LAMBDA b : [title |-> b.title, year |-> b.year])

SortedAscendingStable ==
    LET xs == SelectSeq(resp.before, LAMBDA b : b.author = Some(resp.author))
    IN /\ resp.status = 200
       /\ StablySorted(xs, resp.out, FALSE,
                       LAMBDA b : [id |-> b.id, title |-> b.title, year |-> b.year])
       /\ sort_books_by_year(resp.out) = Ok(resp.out)

(* C9: for every collection the descending sort and the ascending sort
   return the records ordered by year, records of equal year in their input
   order, and sorting the ascending result again leaves it unchanged. *)
C9_SortIsStable ==
    /\ resp.op = "get_books_sorted" => SortedDescendingStable
    /\ resp.op = "get_sorted_books_by_author" => SortedAscendingStable

(* What holds of the two sorts: the same, on the collections whose records
   all have a year. *)
SortIsStableWhenYearsPresent ==
    /\ (resp.op = "get_books_sorted" /\ AllHaveYear(resp.before))
          => SortedDescendingStable
    /\ (resp.op = "get_sorted_books_by_author" /\ AllHaveYear(resp.before))
          => SortedAscendingStable

(* The record the payload obj makes of book: the fields that are keys of
   obj take its values, the others and the id stay. *)
Overwritten(book, obj) ==
    [id |-> book.id,
     title |-> IF "title" \in DOMAIN obj THEN obj["title"] ELSE book.title,
     author |-> IF "author" \in DOMAIN obj THEN obj["author"] ELSE book.author,
     genre |-> IF "genre" \in DOMAIN obj THEN obj["genre"] ELSE book.genre,
     year |-> IF "year" \in DOMAIN obj THEN obj["year"] ELSE book.year]

HasId(bs, id) == \E i \in 1..Len(bs) : bs[i].id = id

(* What the other of PUT and PATCH answers to the request in flight. *)
OtherUpdate ==
    IF resp.op = "update_book"
    THEN patch_book(resp.before, resp.id, resp.data)
    ELSE update_book(resp.before, resp.id, resp.data)

(* C10 (as stated): for every table, id and payload PUT and PATCH answer
   alike and leave the same table; without a record of that id they answer
   404 and change nothing; otherwise they overwrite exactly the fields that
   are keys of the payload, a null value included, and nothing else. *)
C10_PutPatchEquivalent ==
    resp.op \in {"update_book", "patch_book"} =>
        LET bs == resp.before
            obj == IF resp.data.kind = "object" THEN resp.data.obj ELSE <<>>
        IN /\ resp.status = OtherUpdate.status
           /\ books = OtherUpdate.books
           /\ ~HasId(bs, resp.id) => (resp.status = 404 /\ books = bs)
           /\ HasId(bs, resp.id) =>
                 /\ Len(books) = Len(bs)
                 /\ \A i \in 1..Len(bs) :
                       books[i] = IF bs[i].id = resp.id
                                  THEN Overwritten(bs[i], obj)
                                  ELSE bs[i]

(* The payload gives title or author the value null. *)
NullsRequired(obj) ==
    \/ "title" \in DOMAIN obj /\ obj["title"] = None
    \/ "author" \in DOMAIN obj /\ obj["author"] = None

(* C10 (amended): PUT and PATCH always leave the same table, and answer
   alike to a payload that is a JSON object.  Without a record of that id
   they answer 404 and change nothing.  With one and an object payload: if
   the payload gives title or author the value null they answer 500 and
   change nothing; otherwise they answer 200 and overwrite exactly the fields
   that are keys of the payload (a null genre or year included) and nothing
   else.  A payload that is no object changes nothing. *)
C10_PutPatchEquivalentOnObjects ==
    resp.op \in {"update_book", "patch_book"} =>
        LET bs == resp.before
            d == resp.data
        IN /\ books = OtherUpdate.books
           /\ d.kind = "object" => resp.status = OtherUpdate.status
           /\ ~HasId(bs, resp.id) => (resp.status = 404 /\ books = bs)
           /\ (HasId(bs, resp.id) /\ d.kind # "object") => books = bs
           /\ (HasId(bs, resp.id) /\ d.kind = "object" /\ NullsRequired(d.obj)) =>
                 (resp.status = 500 /\ books = bs)
           /\ (HasId(bs, resp.id) /\ d.kind = "object" /\ ~NullsRequired(d.obj)) =>
                 /\ resp.status = 200
                 /\ Len(books) = Len(bs)
                 /\ \A i \in 1..Len(bs) :
                       books[i] = IF bs[i].id = resp.id
                                  THEN Overwritten(bs[i], d.obj)
                                  ELSE bs[i]

(* A PUT set the genre of one of two records to null and its year to a
   value, and left its title and author. *)
C10_Witness ==
    /\ resp.op = "update_book"
    /\ resp.status = 200
    /\ Len(resp.before) = 2
    /\ resp.data.kind = "object"
    /\ DOMAIN resp.data.obj = {"genre", "year"}
    /\ resp.data.obj["genre"] = None
    /\ \E i \in 1..2 :
          /\ resp.before[i].id = resp.id
          /\ resp.before[i].genre # None
          /\ books[i].genre = None
          /\ books[i].year # resp.before[i].year

====
